---- MODULE Spec2Model ----
(***************************************************************************)
(* Cost-controlled, cached query execution layer of qaa_analysis:          *)
(*   - CostAwareBigQueryClient (etl/cost_aware_client.py): dry run, cost   *)
(*     estimate, ceiling check, billed execution;                          *)
(*   - QueryCache (cache/query_cache.py): file cache with a TTL;           *)
(*   - the entry points of the repository that query the remote service    *)
(*     without the client (etl.py, utils/gcp_dataset_analysis_tool.py).    *)
(*                                                                         *)
(* Every entry point is one action.  The variables call, remoteCalls,      *)
(* computeCalls, readCalls and outcome describe the most recent            *)
(* invocation of an entry point (its arguments, the calls it made on its   *)
(* collaborators, and how it ended).                                       *)
(***************************************************************************)
EXTENDS Integers, Sequences, FiniteSets, TLC

VARIABLES
    config,        \* the PipelineConfig handed to the components
    now,           \* time.time(), in seconds
    files,         \* the cache directory: file name (cache key) -> file
    call,          \* the most recent entry-point invocation
    remoteCalls,   \* the calls it made on the remote client, in order
    computeCalls,  \* how many times it invoked compute_fn
    readCalls,     \* how many times it called pd.read_parquet
    outcome,       \* how it ended: a returned value or a raised exception
    inflight       \* the get_or_compute invocations of concurrent callers

vars == <<config, now, files, call, remoteCalls, computeCalls, readCalls, outcome, inflight>>

(***************************************************************************)
(* Python values                                                           *)
(***************************************************************************)
\* None, and a value that is not None (an optional integer never shares a
\* representation with None).
None == <<>>
Some(v) == <<v>>

\* Python's "x or 0" on an optional integer.
OrZero(x) == IF x = None THEN 0 ELSE x[1]

\* None where an object is expected
PyNone == [type |-> "NoneType"]

Return(v) == [kind |-> "return", value |-> v]
Raise(e) == [kind |-> "raise", exc |-> e]

NoCall == [op |-> "none"]

\* no caller is inside get_or_compute
NoInflight == <<>>

(***************************************************************************)
(* pandas DataFrames: the rows (column data) and the index labels.         *)
(***************************************************************************)
RangeIndex(n) == [i \in 1..n |-> i - 1]

DataFrame(rows, index) == [type |-> "DataFrame", rows |-> rows, index |-> index]

\* pd.DataFrame()
EmptyDataFrame == DataFrame(<<>>, <<>>)

\* DataFrame.empty
IsEmpty(df) == Len(df.rows) = 0

\* an empty table, a table with the default index, a table with its own index
DataFrames ==
    { EmptyDataFrame,
      DataFrame(<<"r1">>, RangeIndex(1)),
      DataFrame(<<"r2">>, <<7>>) }

(***************************************************************************)
(* String formatting used in the refusal message                           *)
(***************************************************************************)
DigitChars == <<"0", "1", "2", "3", "4", "5", "6", "7", "8", "9">>

RECURSIVE IntToStr(_)
IntToStr(n) ==
    IF n < 10 THEN <<DigitChars[n + 1]>>
    ELSE IntToStr(n \div 10) \o <<DigitChars[(n % 10) + 1]>>

\* n as exactly w digits, zero-padded on the left (n < 10^w)
RECURSIVE ZeroPad(_, _)
ZeroPad(n, w) ==
    IF w = 0 THEN <<>> ELSE ZeroPad(n \div 10, w - 1) \o <<DigitChars[(n % 10) + 1]>>

\* f"{n:,}" for n >= 0
RECURSIVE FormatThousands(_)
FormatThousands(n) ==
    IF n < 1000 THEN IntToStr(n)
    ELSE FormatThousands(n \div 1000) \o <<",">> \o ZeroPad(n % 1000, 3)

(***************************************************************************)
(* Cost arithmetic.  cost_estimate = bytes / 1024**4 * 6.25 is kept exact, *)
(* in ten-thousandths of a dollar: whole + sum of rems[j] / 1024^j.        *)
(* The product and the division are carried out limb by limb in base 1024  *)
(* so that no intermediate value leaves the range of TLC's integers.       *)
(***************************************************************************)
\* COST_PER_TIB_USD = 6.25, in cents
COST_PER_TIB_USD_CENTS == 625
\* BYTES_PER_TIB = 1024**4
KIB == 1024
BYTES_PER_TIB_EXP == 4

Limb(b, i) == (b \div (KIB ^ i)) % KIB

RECURSIVE CostHorner(_, _, _, _)
CostHorner(b, i, carry, rems) ==
    IF i = BYTES_PER_TIB_EXP THEN [whole |-> carry, rems |-> rems]
    ELSE LET acc == Limb(b, i) * (COST_PER_TIB_USD_CENTS * 100) + carry
         IN  CostHorner(b, i + 1, acc \div KIB, <<acc % KIB>> \o rems)

\* (bytes_estimate / self.BYTES_PER_TIB) * self.COST_PER_TIB_USD
CostEstimate(b) == CostHorner(b, 0, 0, <<>>)

IsExactTenThousandths(cost) == \A j \in 1..Len(cost.rems) : cost.rems[j] = 0

\* The ten-thousandths printed by f"{cost:.4f}": round half to even.
Round4(cost) ==
    LET first == cost.rems[1]
        lowerZero == \A j \in 2..Len(cost.rems) : cost.rems[j] = 0
        half == KIB \div 2
    IN  IF first > half \/ (first = half /\ ~lowerZero) THEN cost.whole + 1
        ELSE IF first = half /\ lowerZero /\ cost.whole % 2 = 1 THEN cost.whole + 1
        ELSE cost.whole

\* f"{cost:.4f}"
Format4f(cost) ==
    LET t == Round4(cost)
    IN  IntToStr(t \div 10000) \o <<".">> \o ZeroPad(t % 10000, 4)

(***************************************************************************)
(* CostAwareBigQueryClient                                                 *)
(***************************************************************************)
\* bigquery.QueryJobConfig(dry_run=..., use_query_cache=..., maximum_bytes_billed=...)
QueryJobConfig(dry, cache, maxBytes) ==
    [dry_run |-> dry, use_query_cache |-> cache,
     maximum_bytes_billed |-> maxBytes, priority |-> "default"]

\* bigquery.QueryJobConfig(): what client.query(sql) runs under
DefaultJobConfig == QueryJobConfig(FALSE, TRUE, None)

\* one self.client.query(query, job_config=...) and what the service answered
RemoteCall(q, jc, resp) == [query |-> q, job_config |-> jc, response |-> resp]

\* class QueryCostError(Exception): pass -- the message is its only argument
QueryCostError(msg) == [type |-> "QueryCostError", args |-> <<msg>>]

\* Mutation: the message reports the ceiling where the estimate belongs.
ErrorMsgSwapped(bytes_estimate, max_bytes, cost_estimate) ==
    << <<"Query exceeds maximum bytes billed limit. Estimated: ">>,
       FormatThousands(max_bytes),
       <<" bytes, Limit: ">>,
       FormatThousands(bytes_estimate),
       <<" bytes ($">>,
       Format4f(cost_estimate),
       <<" USD)">> >>

\* The f-string of the refusal, as its literal and formatted segments.
ErrorMsg(bytes_estimate, max_bytes, cost_estimate) ==
    << <<"Query exceeds maximum bytes billed limit. Estimated: ">>,
       FormatThousands(bytes_estimate),
       <<" bytes, Limit: ">>,
       FormatThousands(max_bytes),
       <<" bytes ($">>,
       Format4f(cost_estimate),
       <<" USD)">> >>

\* Mutation: the ceiling is compared on the displayed currency figure.
ExceedsLimitByCurrency(bytes_estimate, max_bytes) ==
    Round4(CostEstimate(bytes_estimate)) > Round4(CostEstimate(max_bytes))

\* Mutation: an estimate equal to the ceiling is refused.
ExceedsLimitInclusive(bytes_estimate, max_bytes) == bytes_estimate >= max_bytes

\* if bytes_estimate > self.config.MAX_BYTES_BILLED
ExceedsLimit(bytes_estimate, max_bytes) == bytes_estimate > max_bytes

\* Mutation: a failed dry run is read as an estimate of 0 bytes.
DryRunResultSwallowed(resp) ==
    IF resp.kind = "error" THEN Return(<<0, CostEstimate(0)>>)
    ELSE LET b == OrZero(resp.total_bytes_processed)
         IN  Return(<<b, CostEstimate(b)>>)

\* estimate_query_cost, after the dry run answered: the tuple returned, or
\* the remote error re-raised.
DryRunResult(resp) ==
    IF resp.kind = "error" THEN Raise(resp.exc)
    ELSE LET b == OrZero(resp.total_bytes_processed)
         IN  Return(<<b, CostEstimate(b)>>)

EstimateQueryCost(cfg, query, resp) ==
    [calls |-> <<RemoteCall(query,
                            QueryJobConfig(TRUE, FALSE, Some(cfg.MAX_BYTES_BILLED)),
                            resp)>>,
     outcome |-> DryRunResult(resp)]

\* Mutation: every key of the customizations is set on the configuration.
ApplyCustomizationsAnyKey(jc, cust) ==
    [k \in DOMAIN jc \cup DOMAIN cust |-> IF k \in DOMAIN cust THEN cust[k] ELSE jc[k]]

\* for key, value in job_config_customizations.items():
\*     if hasattr(job_config, key): setattr(job_config, key, value)
\* None and {} are both falsy and both are the empty mapping here.
ApplyCustomizations(jc, cust) ==
    [k \in DOMAIN jc |-> IF k \in DOMAIN cust THEN cust[k] ELSE jc[k]]

\* Mutation: a failed execution is retried once.
ExecuteRetrying(query, jc, resp) ==
    IF resp.kind = "error"
    THEN [calls |-> <<RemoteCall(query, jc, resp), RemoteCall(query, jc, resp)>>,
          outcome |-> Raise(resp.exc)]
    ELSE [calls |-> <<RemoteCall(query, jc, resp)>>, outcome |-> resp.result]

\* Step 3 of safe_query: client.query(...), query_job.to_dataframe()
Execute(query, jc, resp) ==
    [calls |-> <<RemoteCall(query, jc, resp)>>,
     outcome |-> IF resp.kind = "error" THEN Raise(resp.exc) ELSE resp.result]

SafeQuery(cfg, query, cust, dryResp, execResp) ==
    LET est == EstimateQueryCost(cfg, query, dryResp)
    IN  IF est.outcome.kind = "raise" THEN est
        ELSE LET bytes_estimate == est.outcome.value[1]
                 cost_estimate == est.outcome.value[2]
             IN  IF ExceedsLimit(bytes_estimate, cfg.MAX_BYTES_BILLED)
                 THEN [calls |-> est.calls,
                       outcome |-> Raise(QueryCostError(
                           ErrorMsg(bytes_estimate, cfg.MAX_BYTES_BILLED, cost_estimate)))]
                 ELSE LET jc == ApplyCustomizations(
                                    QueryJobConfig(FALSE, TRUE, Some(cfg.MAX_BYTES_BILLED)),
                                    cust)
                          run == Execute(query, jc, execResp)
                      IN  [calls |-> est.calls \o run.calls, outcome |-> run.outcome]

(***************************************************************************)
(* The remote service and the callers' inputs                              *)
(***************************************************************************)
Queries == {"SELECT a", "SELECT b"}

\* config.MAX_BYTES_BILLED (an integer read from the environment)
Ceilings == {0, 3, 2^24}

\* config.CACHE_TTL_HOURS when the environment does not set it
DEFAULT_CACHE_TTL_HOURS == 24

RemoteErrors ==
    { [type |-> "GoogleCloudError", msg |-> "remote failure"],
      [type |-> "ConnectionError", msg |-> "connection reset"] }

\* query_job.total_bytes_processed of a dry run
BytesReported ==
    {None} \cup {Some(n) : n \in {0, 1, 3, 4, 2^24, 2^24 + 1, 2^30}}

DryRunResponses ==
    {[kind |-> "error", exc |-> e] : e \in RemoteErrors}
    \cup {[kind |-> "job", total_bytes_processed |-> b] : b \in BytesReported}

\* what query_job.to_dataframe() can return
ResultFrames == {EmptyDataFrame, DataFrame(<<"r1">>, RangeIndex(1))}

\* A billed query: client.query raises, or the job's to_dataframe() returns
\* a table or raises.
ExecResponses ==
    {[kind |-> "error", exc |-> e] : e \in RemoteErrors}
    \cup {[kind |-> "job", result |-> Return(df)] : df \in ResultFrames}
    \cup {[kind |-> "job", result |-> Raise([type |-> "GoogleCloudError", msg |-> "download failed"])]}

\* job_config_customizations: None, an attribute of the job configuration,
\* a key that is no attribute, the dry_run attribute itself, and a billing
\* limit above every ceiling.
CustomizationChoices ==
    << <<>>,
       [priority |-> "BATCH"],
       [unknown_key |-> "x"],
       [dry_run |-> TRUE],
       [maximum_bytes_billed |-> Some(2^30)] >>

(***************************************************************************)
(* Entry points that reach the remote service                              *)
(***************************************************************************)
SafeQueryCall ==
    \E q \in Queries, i \in DOMAIN CustomizationChoices,
       dryResp \in DryRunResponses, execResp \in ExecResponses :
        \E r \in {SafeQuery(config, q, CustomizationChoices[i], dryResp, execResp)} :
            /\ call' = [op |-> "safe_query", query |-> q,
                        customizations |-> CustomizationChoices[i]]
            /\ remoteCalls' = r.calls
            /\ outcome' = r.outcome
            /\ UNCHANGED <<inflight, config, now, files, computeCalls, readCalls>>

EstimateQueryCostCall ==
    \E q \in Queries, dryResp \in DryRunResponses :
        \E r \in {EstimateQueryCost(config, q, dryResp)} :
            /\ call' = [op |-> "estimate_query_cost", query |-> q]
            /\ remoteCalls' = r.calls
            /\ outcome' = r.outcome
            /\ UNCHANGED <<inflight, config, now, files, computeCalls, readCalls>>

\* etl.py main(): bq.query(SQL).result().to_dataframe(...) on a plain
\* bigquery.Client; the clustering that follows does not reach the service.
EtlMain ==
    \E resp \in ExecResponses :
        /\ call' = [op |-> "etl.main", query |-> "SQL"]
        /\ remoteCalls' = <<RemoteCall("SQL", DefaultJobConfig, resp)>>
        /\ outcome' = IF resp.kind = "error" THEN Raise(resp.exc)
                      ELSE IF resp.result.kind = "raise" THEN resp.result
                      ELSE Return(PyNone)
        /\ UNCHANGED <<inflight, config, now, files, computeCalls, readCalls>>

\* BigQueryDatasetAnalyzer.get_sample_data: self.client.query(query).to_dataframe()
GetSampleData ==
    \E q \in Queries, resp \in ExecResponses :
        /\ call' = [op |-> "get_sample_data", query |-> q]
        /\ remoteCalls' = <<RemoteCall(q, DefaultJobConfig, resp)>>
        /\ outcome' = IF resp.kind = "error" THEN Raise(resp.exc) ELSE resp.result
        /\ UNCHANGED <<inflight, config, now, files, computeCalls, readCalls>>

InitClient ==
    /\ config \in {[MAX_BYTES_BILLED |-> c, CACHE_TTL_HOURS |-> DEFAULT_CACHE_TTL_HOURS] :
                      c \in Ceilings}
    /\ now = 0
    /\ files = <<>>
    /\ call = NoCall
    /\ remoteCalls = <<>>
    /\ computeCalls = 0
    /\ readCalls = 0
    /\ outcome = Return(PyNone)
    /\ inflight = NoInflight

NextClient == SafeQueryCall \/ EstimateQueryCostCall \/ EtlMain \/ GetSampleData

SpecClient == InitClient /\ [][NextClient]_vars

(***************************************************************************)
(* Claims on the cost-aware client                                         *)
(***************************************************************************)
IsSafeQuery == call.op = "safe_query"

\* the dry run of the most recent invocation answered with a job
DryRunAnswered ==
    Len(remoteCalls) >= 1 /\ remoteCalls[1].response.kind = "job"

\* the byte estimate safe_query derived from it
DryRunBytes == OrZero(remoteCalls[1].response.total_bytes_processed)

IsRefusal == outcome.kind = "raise" /\ outcome.exc.type = "QueryCostError"

C2_RefusesExactlyAboveCeiling ==
    (IsSafeQuery /\ DryRunAnswered)
    => /\ IsRefusal <=> (DryRunBytes > config.MAX_BYTES_BILLED)
       /\ (Len(remoteCalls) = 2) <=> (DryRunBytes <= config.MAX_BYTES_BILLED)
       /\ DryRunBytes = config.MAX_BYTES_BILLED => Len(remoteCalls) = 2
       /\ DryRunBytes = config.MAX_BYTES_BILLED + 1 => IsRefusal

C2_Witness ==
    /\ IsSafeQuery /\ DryRunAnswered
    /\ DryRunBytes = config.MAX_BYTES_BILLED
    /\ config.MAX_BYTES_BILLED > 0
    /\ Len(remoteCalls) = 2
    /\ ~IsRefusal

\* C3: every non-dry-run query an invocation sends to the remote service is
\* preceded, in the same invocation, by a dry run of the same query text
\* whose estimate is not above MAX_BYTES_BILLED.
C3_EveryBilledQueryIsGuarded ==
    \A i \in 1..Len(remoteCalls) :
        remoteCalls[i].job_config.dry_run = FALSE
        => \E j \in 1..(i - 1) :
               /\ remoteCalls[j].job_config.dry_run = TRUE
               /\ remoteCalls[j].query = remoteCalls[i].query
               /\ remoteCalls[j].response.kind = "job"
               /\ OrZero(remoteCalls[j].response.total_bytes_processed)
                      <= config.MAX_BYTES_BILLED

\* C4: when the dry run raises a remote error, estimate_query_cost and
\* safe_query raise that same error, produce no estimate, and send nothing
\* else to the remote service (no retry, no billed query).
C4_DryRunErrorPropagates ==
    (/\ call.op \in {"safe_query", "estimate_query_cost"}
     /\ Len(remoteCalls) >= 1
     /\ remoteCalls[1].response.kind = "error")
    => /\ outcome = Raise(remoteCalls[1].response.exc)
       /\ Len(remoteCalls) = 1

C4_Witness ==
    /\ IsSafeQuery
    /\ Len(remoteCalls) = 1
    /\ remoteCalls[1].response.kind = "error"
    /\ outcome = Raise(remoteCalls[1].response.exc)

\* how the second remote call of safe_query failed, if it did
SecondCallFailed ==
    /\ Len(remoteCalls) >= 2
    /\ \/ remoteCalls[2].response.kind = "error"
       \/ remoteCalls[2].response.result.kind = "raise"

SecondCallError ==
    IF remoteCalls[2].response.kind = "error" THEN remoteCalls[2].response.exc
    ELSE remoteCalls[2].response.result.exc

NumDryRuns == Cardinality({i \in 1..Len(remoteCalls) : remoteCalls[i].job_config.dry_run = TRUE})

\* C5 (as stated): each safe_query sends exactly one dry run and then at most
\* one non-dry-run query; an error of the second call reaches the caller
\* unchanged and nothing is sent again.
C5_OneDryRunThenAtMostOneBilled ==
    IsSafeQuery
    => /\ Len(remoteCalls) \in {1, 2}
       /\ remoteCalls[1].job_config.dry_run = TRUE
       /\ NumDryRuns = 1
       /\ Len(remoteCalls) = 2 => remoteCalls[2].job_config.dry_run = FALSE
       /\ SecondCallFailed => outcome = Raise(SecondCallError)

\* C5 (amended): each safe_query sends exactly one estimating dry run first
\* and then at most one execution query, which is a non-dry-run query unless
\* job_config_customizations sets dry_run; an error of the execution query
\* reaches the caller unchanged and nothing is sent again.
C5_OneEstimateThenAtMostOneExecution ==
    IsSafeQuery
    => /\ Len(remoteCalls) \in {1, 2}
       /\ remoteCalls[1].job_config
              = QueryJobConfig(TRUE, FALSE, Some(config.MAX_BYTES_BILLED))
       /\ Len(remoteCalls) = 2
              => remoteCalls[2].job_config.dry_run
                     = (IF "dry_run" \in DOMAIN call.customizations
                        THEN call.customizations.dry_run ELSE FALSE)
       /\ SecondCallFailed => outcome = Raise(SecondCallError)

C5_Witness ==
    /\ IsSafeQuery
    /\ Len(remoteCalls) = 2
    /\ remoteCalls[2].job_config.dry_run = FALSE
    /\ remoteCalls[2].response.kind = "error"
    /\ outcome = Raise(remoteCalls[2].response.exc)

\* Reading the figures back out of the refusal message.
DigitValue(c) == CHOOSE d \in 0..9 : DigitChars[d + 1] = c

RECURSIVE ParseDigits(_)
ParseDigits(s) ==
    IF Len(s) = 0 THEN 0
    ELSE LET c == s[Len(s)]
             front == SubSeq(s, 1, Len(s) - 1)
         IN  IF c \in {",", "."} THEN ParseDigits(front)
             ELSE 10 * ParseDigits(front) + DigitValue(c)

RefusalMsg == outcome.exc.args[1]

\* C6 (as stated): the refusal carries the original byte estimate, the
\* ceiling, and the derived currency figure.
C6_RefusalCarriesExactFigures ==
    (IsSafeQuery /\ IsRefusal)
    => /\ ParseDigits(RefusalMsg[2]) = DryRunBytes
       /\ ParseDigits(RefusalMsg[4]) = config.MAX_BYTES_BILLED
       /\ IsExactTenThousandths(CostEstimate(DryRunBytes))
       /\ ParseDigits(RefusalMsg[6]) = CostEstimate(DryRunBytes).whole

\* C6 (amended): the refusal carries one argument, its message, whose text
\* renders the byte estimate and the ceiling exactly (with thousands
\* separators) and the currency figure rounded to four decimal places.
C6_RefusalMessageRendersFigures ==
    (IsSafeQuery /\ IsRefusal)
    => /\ Len(outcome.exc.args) = 1
       /\ ParseDigits(RefusalMsg[2]) = DryRunBytes
       /\ ParseDigits(RefusalMsg[4]) = config.MAX_BYTES_BILLED
       /\ ParseDigits(RefusalMsg[6]) = Round4(CostEstimate(DryRunBytes))

C6_Witness ==
    /\ IsSafeQuery /\ IsRefusal
    /\ DryRunBytes = 2^30
    /\ RefusalMsg[2] = <<"1", ",", "0", "7", "3", ",", "7", "4", "1", ",", "8", "2", "4">>
    /\ RefusalMsg[6] = <<"0", ".", "0", "0", "6", "1">>

(***************************************************************************)
(* QueryCache: keys                                                        *)
(***************************************************************************)
\* A query text is a sequence of characters; a parameter mapping is the
\* sequence of its (name, value) items in insertion order (names distinct).
\* None and {} are both falsy and both are the empty sequence here.
Whitespace == {" ", "\n", "\t"}

\* str.strip()
RECURSIVE Strip(_)
Strip(text) ==
    IF Len(text) = 0 THEN text
    ELSE IF text[1] \in Whitespace THEN Strip(Tail(text))
    ELSE IF text[Len(text)] \in Whitespace THEN Strip(SubSeq(text, 1, Len(text) - 1))
    ELSE text

\* The parameter names in use, in the order Python sorts them.
ParamNames == <<"end_date", "start_date">>

NameRank(name) == CHOOSE i \in DOMAIN ParamNames : ParamNames[i] = name

\* Mutation: the items are rendered in insertion order.
SortedItemsUnsorted(items) == items

\* sorted(params.items())
SortedItems(items) ==
    LET present == {NameRank(items[j][1]) : j \in DOMAIN items}
        ItemOf(r) == items[CHOOSE j \in DOMAIN items : NameRank(items[j][1]) = r]
        RECURSIVE Build(_)
        Build(r) ==
            IF r > Len(ParamNames) THEN <<>>
            ELSE (IF r \in present THEN <<ItemOf(r)>> ELSE <<>>) \o Build(r + 1)
    IN  Build(1)

\* Mutation: the values of the mapping are left out of the hashed string.
RECURSIVE ReprItemsNamesOnly(_)
ReprItemsNamesOnly(items) ==
    IF Len(items) = 0 THEN <<>>
    ELSE <<"'", items[1][1], "'">> \o ReprItemsNamesOnly(Tail(items))

\* str() of a list of 2-tuples of strings: "[('k', 'v'), ('k2', 'v2')]"
RECURSIVE ReprItems(_)
ReprItems(items) ==
    IF Len(items) = 0 THEN <<>>
    ELSE <<"(", "'", items[1][1], "'", ",", " ", "'", items[1][2], "'", ")">>
         \o (IF Len(items) > 1 THEN <<",", " ">> ELSE <<>>)
         \o ReprItems(Tail(items))

StrOfList(items) == <<"[">> \o ReprItems(items) \o <<"]">>

\* The string that is hashed.
CacheInput(query, params) ==
    Strip(query)
    \o (IF Len(params) > 0 THEN <<"__PARAMS__">> \o StrOfList(SortedItems(params))
        ELSE <<>>)

\* hashlib.sha256(cache_input.encode("utf-8")).hexdigest()[:16].  SHA-256
\* itself is not computed: HexDigest is a stand-in with the shape of a
\* hexdigest, 64 hexadecimal characters determined by the input alone, that
\* has no collision on the inputs of the model.
HexChars == <<"0", "1", "2", "3", "4", "5", "6", "7", "8", "9", "a", "b", "c", "d", "e", "f">>

\* the characters (and multi-character tokens) that inputs are made of
Alphabet ==
    <<"q", "r", " ", "\n", "\t", "__PARAMS__", "[", "]", "(", ")", "'", ",",
      "start_date", "end_date", "d1", "d2">>

CharCode(c) == CHOOSE i \in DOMAIN Alphabet : Alphabet[i] = c

RECURSIVE DigestState(_, _)
DigestState(input, acc) ==
    IF Len(input) = 0 THEN acc
    ELSE DigestState(Tail(input), (acc * 31 + CharCode(input[1])) % 65521)

HEXDIGEST_LENGTH == 64

HexDigest(input) ==
    LET acc == DigestState(input, 7)
    IN  [i \in 1..HEXDIGEST_LENGTH |->
            HexChars[(((acc \div (16 ^ ((i - 1) % 4))) + ((i - 1) \div 4)) % 16) + 1]]

KEY_LENGTH == 16

Sha256Hex16(input) == SubSeq(HexDigest(input), 1, KEY_LENGTH)

\* _generate_cache_key
GenerateCacheKey(query, params) == Sha256Hex16(CacheInput(query, params))

\* The query texts and parameter mappings that are handed to the cache: a
\* query, the query with surrounding whitespace, another query, and a query
\* text that contains the separator; no mapping, mappings that differ in a
\* value or in a name, and one mapping in its two insertion orders.
KeyQueries ==
    { <<"q">>,
      <<" ", "q", "\n">>,
      <<"r">>,
      <<"q", "__PARAMS__", "[", "(", "'", "start_date", "'", ",", " ", "'", "d1", "'", ")", "]">> }

KeyParams ==
    { <<>>,
      << <<"start_date", "d1">> >>,
      << <<"start_date", "d2">> >>,
      << <<"end_date", "d1">> >>,
      << <<"start_date", "d1">>, <<"end_date", "d2">> >>,
      << <<"end_date", "d2">>, <<"start_date", "d1">> >> }

\* cache_key = self._generate_cache_key(query, params), for each request
\* of the model: the keys are computed once and looked up afterwards
\* (@@ makes the table an explicit function instead of a rule that TLC
\* applies anew at every lookup).
GeneratedKeys ==
    [r \in KeyQueries \X KeyParams |-> GenerateCacheKey(r[1], r[2])] @@ <<>>

KeyOf(query, params) == GeneratedKeys[<<query, params>>]

(***************************************************************************)
(* QueryCache: files                                                       *)
(***************************************************************************)
\* time.time() - st_mtime is in seconds; ages are compared in hours.
SECONDS_PER_HOUR == 3600

NoFile == [exists |-> FALSE]

File(mtime, content) == [exists |-> TRUE, mtime |-> mtime, content |-> content]

\* what a file holds: a serialized table (its column data), or bytes that are
\* no Parquet file (a truncated or overwritten file)
Parquet(rows) == [format |-> "parquet", rows |-> rows]
Garbage == [format |-> "garbage"]

\* Mutation: the file name does not depend on the key.
CacheFilenameShared(key) == <<"query_", "cache", ".parquet">>

\* cache_filename = f"query_{cache_key}.parquet"; a file name is the sequence
\* of its parts
CacheFilename(key) == <<"query_">> \o key \o <<".parquet">>

FileAt(dir, key) ==
    IF CacheFilename(key) \in DOMAIN dir THEN dir[CacheFilename(key)] ELSE NoFile

\* the directory after name was (over)written
WriteAt(dir, name, file) ==
    [n \in DOMAIN dir \cup {name} |-> IF n = name THEN file ELSE dir[n]]

PutFile(dir, key, file) == WriteAt(dir, CacheFilename(key), file)

\* Path.glob: "*" stands for any run of parts, everything else for itself
RECURSIVE GlobMatch(_, _)
GlobMatch(pattern, name) ==
    IF Len(pattern) = 0 THEN Len(name) = 0
    ELSE IF pattern[1] = "*"
    THEN \/ GlobMatch(Tail(pattern), name)
         \/ (Len(name) > 0 /\ GlobMatch(pattern, Tail(name)))
    ELSE /\ Len(name) > 0
         /\ pattern[1] = name[1]
         /\ GlobMatch(Tail(pattern), Tail(name))

\* self.cache_dir.glob(pattern)
Glob(dir, pattern) == {name \in DOMAIN dir : GlobMatch(pattern, name)}

QueryFilesPattern == <<"query_", "*", ".parquet">>

\* result_df.to_parquet(cache_path, compression="snappy", index=False):
\* the index is not stored.
ToParquet(df) == Parquet(df.rows)

\* pd.read_parquet(cache_path)
ReadParquet(file) ==
    IF file.content.format = "parquet"
    THEN Return(DataFrame(file.content.rows, RangeIndex(Len(file.content.rows))))
    ELSE Raise([type |-> "ArrowInvalid", msg |-> "not a Parquet file"])

\* Mutation: an entry whose age equals the TTL is still served.
IsCacheValidInclusive(file, t, ttl_hours) ==
    /\ file.exists
    /\ (t - file.mtime) <= ttl_hours * SECONDS_PER_HOUR

\* Mutation: the age is not converted to hours before it is compared.
IsCacheValidSecondsAsHours(file, t, ttl_hours) ==
    /\ file.exists
    /\ (t - file.mtime) < ttl_hours

\* _is_cache_valid: age_hours = (current_time - mod_time) / 3600 is a real
\* number; age_hours < ttl_hours is decided without rounding.
IsCacheValid(file, t, ttl_hours) ==
    /\ file.exists
    /\ (t - file.mtime) < ttl_hours * SECONDS_PER_HOUR

(***************************************************************************)
(* QueryCache.get_or_compute                                               *)
(***************************************************************************)
TypeError(typeName) ==
    [type |-> "TypeError",
     args |-> << <<"Compute function must return a pandas DataFrame, got ", typeName>> >>]

\* What the directory holds after to_parquet: the write succeeds, fails
\* before the file is opened, or fails after it was opened for writing.
AfterWrite(dir, key, df, t, writeResult) ==
    IF writeResult = "ok" THEN PutFile(dir, key, File(t, ToParquet(df)))
    ELSE IF writeResult = "fail_partial" THEN PutFile(dir, key, File(t, Garbage))
    ELSE dir

\* Mutation: force_refresh is not looked at before the cache is read.
TryReadIgnoringForce(dir, key, t, ttl_hours, force_refresh) ==
    IF IsCacheValid(FileAt(dir, key), t, ttl_hours)
    THEN LET r == ReadParquet(FileAt(dir, key))
         IN  [reads |-> 1, hit |-> r.kind = "return", result |-> r]
    ELSE [reads |-> 0, hit |-> FALSE, result |-> Return(PyNone)]

\* Lines 148-159: when the call is not forced and the entry is fresh, the
\* file is read; a failed read is logged and is no hit.
TryRead(dir, key, t, ttl_hours, force_refresh) ==
    IF ~force_refresh /\ IsCacheValid(FileAt(dir, key), t, ttl_hours)
    THEN LET r == ReadParquet(FileAt(dir, key))
         IN  [reads |-> 1, hit |-> r.kind = "return", result |-> r]
    ELSE [reads |-> 0, hit |-> FALSE, result |-> Return(PyNone)]

\* Mutation: an empty result is written to the cache like any other.
ComputeAndStoreCachesEmpty(dir, key, t, computed, writeResult) ==
    IF computed.kind = "raise" THEN [files |-> dir, outcome |-> computed, write |-> "none"]
    ELSE IF computed.value = PyNone
    THEN [files |-> dir, outcome |-> Return(EmptyDataFrame), write |-> "none"]
    ELSE IF computed.value.type # "DataFrame"
    THEN [files |-> dir, outcome |-> Raise(TypeError(computed.value.type)), write |-> "none"]
    ELSE [files |-> AfterWrite(dir, key, computed.value, t, writeResult),
          outcome |-> computed, write |-> writeResult]

\* Mutation: None is handled like any other value that is no DataFrame.
ComputeAndStoreNoneRaises(dir, key, t, computed, writeResult) ==
    IF computed.kind = "raise" THEN [files |-> dir, outcome |-> computed, write |-> "none"]
    ELSE IF computed.value.type # "DataFrame"
    THEN [files |-> dir, outcome |-> Raise(TypeError(computed.value.type)), write |-> "none"]
    ELSE IF IsEmpty(computed.value)
    THEN [files |-> dir, outcome |-> computed, write |-> "none"]
    ELSE [files |-> AfterWrite(dir, key, computed.value, t, writeResult),
          outcome |-> computed, write |-> writeResult]

\* Mutation: an exception of compute_fn is logged and an empty table returned.
ComputeAndStoreSwallowsRaise(dir, key, t, computed, writeResult) ==
    IF computed.kind = "raise"
    THEN [files |-> dir, outcome |-> Return(EmptyDataFrame), write |-> "none"]
    ELSE IF computed.value = PyNone
    THEN [files |-> dir, outcome |-> Return(EmptyDataFrame), write |-> "none"]
    ELSE IF computed.value.type # "DataFrame"
    THEN [files |-> dir, outcome |-> Raise(TypeError(computed.value.type)), write |-> "none"]
    ELSE IF IsEmpty(computed.value)
    THEN [files |-> dir, outcome |-> computed, write |-> "none"]
    ELSE [files |-> AfterWrite(dir, key, computed.value, t, writeResult),
          outcome |-> computed, write |-> writeResult]

\* Mutation: a failed write is raised to the caller.
ComputeAndStoreWriteRaises(dir, key, t, computed, writeResult) ==
    IF computed.kind = "raise" THEN [files |-> dir, outcome |-> computed, write |-> "none"]
    ELSE IF computed.value = PyNone
    THEN [files |-> dir, outcome |-> Return(EmptyDataFrame), write |-> "none"]
    ELSE IF computed.value.type # "DataFrame"
    THEN [files |-> dir, outcome |-> Raise(TypeError(computed.value.type)), write |-> "none"]
    ELSE IF IsEmpty(computed.value)
    THEN [files |-> dir, outcome |-> computed, write |-> "none"]
    ELSE [files |-> AfterWrite(dir, key, computed.value, t, writeResult),
          outcome |-> IF writeResult = "ok" THEN computed
                      ELSE Raise([type |-> "OSError", msg |-> "write failed"]),
          write |-> writeResult]

\* Mutation: when compute_fn returns an empty table the file of the entry
\* is removed.
ComputeAndStoreDropsOnEmpty(dir, key, t, computed, writeResult) ==
    IF computed.kind = "raise" THEN [files |-> dir, outcome |-> computed, write |-> "none"]
    ELSE IF computed.value = PyNone
    THEN [files |-> dir, outcome |-> Return(EmptyDataFrame), write |-> "none"]
    ELSE IF computed.value.type # "DataFrame"
    THEN [files |-> dir, outcome |-> Raise(TypeError(computed.value.type)), write |-> "none"]
    ELSE IF IsEmpty(computed.value)
    THEN [files |-> [n \in DOMAIN dir \ {CacheFilename(key)} |-> dir[n]],
          outcome |-> computed, write |-> "none"]
    ELSE [files |-> AfterWrite(dir, key, computed.value, t, writeResult),
          outcome |-> computed, write |-> writeResult]

\* Lines 169-205: compute_fn has answered with computed.
ComputeAndStore(dir, key, t, computed, writeResult) ==
    IF computed.kind = "raise" THEN [files |-> dir, outcome |-> computed, write |-> "none"]
    ELSE IF computed.value = PyNone
    THEN [files |-> dir, outcome |-> Return(EmptyDataFrame), write |-> "none"]
    ELSE IF computed.value.type # "DataFrame"
    THEN [files |-> dir, outcome |-> Raise(TypeError(computed.value.type)), write |-> "none"]
    ELSE IF IsEmpty(computed.value)
    THEN [files |-> dir, outcome |-> computed, write |-> "none"]
    ELSE [files |-> AfterWrite(dir, key, computed.value, t, writeResult),
          outcome |-> computed, write |-> writeResult]

\* Mutation: a failed read of a fresh entry is raised to the caller.
GetOrComputeReadRaises(cfg, dir, t, query, params, force_refresh, computed, writeResult) ==
    LET key == KeyOf(query, params)
        cached == TryRead(dir, key, t, cfg.CACHE_TTL_HOURS, force_refresh)
    IN  IF cached.reads = 1
        THEN [files |-> dir, outcome |-> cached.result, reads |-> cached.reads,
              computes |-> 0, computed |-> None, write |-> "none"]
        ELSE LET r == ComputeAndStore(dir, key, t, computed, writeResult)
             IN  [files |-> r.files, outcome |-> r.outcome, reads |-> cached.reads,
                  computes |-> 1, computed |-> Some(computed), write |-> r.write]

\* Mutation: a hit refreshes the modification time of the file it served.
GetOrComputeTouchesOnHit(cfg, dir, t, query, params, force_refresh, computed, writeResult) ==
    LET key == KeyOf(query, params)
        cached == TryRead(dir, key, t, cfg.CACHE_TTL_HOURS, force_refresh)
    IN  IF cached.hit
        THEN [files |-> PutFile(dir, key, File(t, FileAt(dir, key).content)),
              outcome |-> cached.result, reads |-> cached.reads,
              computes |-> 0, computed |-> None, write |-> "none"]
        ELSE LET r == ComputeAndStore(dir, key, t, computed, writeResult)
             IN  [files |-> r.files, outcome |-> r.outcome, reads |-> cached.reads,
                  computes |-> 1, computed |-> Some(computed), write |-> r.write]

\* get_or_compute.  computed is what compute_fn does if it is invoked and
\* writeResult what becomes of the write if one is attempted.
GetOrCompute(cfg, dir, t, query, params, force_refresh, computed, writeResult) ==
    LET key == KeyOf(query, params)
        cached == TryRead(dir, key, t, cfg.CACHE_TTL_HOURS, force_refresh)
    IN  IF cached.hit
        THEN [files |-> dir, outcome |-> cached.result, reads |-> cached.reads,
              computes |-> 0, computed |-> None, write |-> "none"]
        ELSE LET r == ComputeAndStore(dir, key, t, computed, writeResult)
             IN  [files |-> r.files, outcome |-> r.outcome, reads |-> cached.reads,
                  computes |-> 1, computed |-> Some(computed), write |-> r.write]

(***************************************************************************)
(* QueryCache.clear_cache and QueryCache.get_cache_stats                   *)
(***************************************************************************)
\* Mutation: every file that was to be deleted is counted.
ClearCacheCountsFailures(dir, pattern, failed) ==
    LET files_to_delete == IF pattern # None THEN Glob(dir, pattern[1])
                           ELSE Glob(dir, QueryFilesPattern)
        deleted == files_to_delete \ failed
    IN  [files |-> [n \in DOMAIN dir \ deleted |-> dir[n]],
         outcome |-> Return(Cardinality(files_to_delete))]

\* clear_cache(pattern); pattern is None or a glob pattern, failed is the set
\* of files whose unlink raises.
ClearCache(dir, pattern, failed) ==
    LET files_to_delete == IF pattern # None THEN Glob(dir, pattern[1])
                           ELSE Glob(dir, QueryFilesPattern)
        deleted == files_to_delete \ failed
    IN  [files |-> [n \in DOMAIN dir \ deleted |-> dir[n]],
         outcome |-> Return(Cardinality(deleted))]

\* st_size, in units of the model
SizeOf(file) == IF file.content.format = "parquet" THEN 1 + Len(file.content.rows) ELSE 1

RECURSIVE SumSizes(_, _)
SumSizes(dir, keys) ==
    IF keys = {} THEN 0
    ELSE LET k == CHOOSE x \in keys : TRUE
         IN  SizeOf(dir[k]) + SumSizes(dir, keys \ {k})

\* get_cache_stats; the ages are kept in seconds (age_hours * 3600).
GetCacheStats(dir, t, ttl_hours) ==
    LET cache_files == Glob(dir, QueryFilesPattern)
    IN  IF cache_files = {}
        THEN [file_count |-> 0, total_size_mb |-> 0,
              oldest_file_hours |-> 0, newest_file_hours |-> 0]
        ELSE LET ages == {t - dir[k].mtime : k \in cache_files}
             IN  [file_count |-> Cardinality(cache_files),
                  total_size_mb |-> SumSizes(dir, cache_files),
                  oldest_file_hours |-> CHOOSE a \in ages : \A b \in ages : a >= b,
                  newest_file_hours |-> CHOOSE a \in ages : \A b \in ages : a <= b,
                  expired_files |-> Cardinality({k \in cache_files :
                      (t - dir[k].mtime) > ttl_hours * SECONDS_PER_HOUR})]

(***************************************************************************)
(* The cache's callers and its environment                                 *)
(***************************************************************************)
\* the clock moves in steps of half an hour, MaxTicks times at most
MaxTicks == 2
TickSeconds == SECONDS_PER_HOUR \div 2

\* config.CACHE_TTL_HOURS (an integer read from the environment)
TtlChoices == {0, 1}

\* (query, params) of the callers: a query, the same query with surrounding
\* whitespace, and the query with a parameter mapping
CacheRequests ==
    << << <<"q">>, <<>> >>,
       << <<" ", "q", "\n">>, <<>> >>,
       << <<"q">>, << <<"start_date", "d1">> >> >> >>

\* what compute_fn can do: return a table, None or a value of another
\* type, or raise
ComputeResults ==
    {Return(df) : df \in DataFrames}
    \cup {Return(PyNone), Return([type |-> "str"])}
    \cup {Raise([type |-> "QueryCostError", msg |-> "refused"])}

WriteResults == {"ok", "fail_clean", "fail_partial"}

\* The environment of one get_or_compute: compute_fn answers only if it is
\* invoked, the file system only if a write is attempted.
WouldHit(dir, t, query, params, force_refresh) ==
    TryRead(dir, KeyOf(query, params), t, config.CACHE_TTL_HOURS,
            force_refresh).hit

ComputeChoices(hit) == IF hit THEN {Return(PyNone)} ELSE ComputeResults

WriteChoices(hit, computed) ==
    IF /\ ~hit
       /\ computed.kind = "return"
       /\ computed.value.type = "DataFrame"
       /\ ~IsEmpty(computed.value)
    THEN WriteResults
    ELSE {"ok"}

GetOrComputeCall ==
    \E i \in DOMAIN CacheRequests, force_refresh \in BOOLEAN :
      \E hit \in {WouldHit(files, now, CacheRequests[i][1], CacheRequests[i][2],
                            force_refresh)} :
        \E computed \in ComputeChoices(hit) :
          \E writeResult \in WriteChoices(hit, computed) :
            \E r \in {GetOrCompute(config, files, now, CacheRequests[i][1],
                                    CacheRequests[i][2], force_refresh,
                                    computed, writeResult)} :
                /\ call' = [op |-> "get_or_compute",
                            query |-> CacheRequests[i][1],
                            params |-> CacheRequests[i][2],
                            force_refresh |-> force_refresh, at |-> now,
                            before |-> FileAt(files,
                                KeyOf(CacheRequests[i][1], CacheRequests[i][2])),
                            computed |-> r.computed, write |-> r.write]
                /\ files' = r.files
                /\ computeCalls' = r.computes
                /\ readCalls' = r.reads
                /\ outcome' = r.outcome
                /\ UNCHANGED <<inflight, config, now, remoteCalls>>

\* the patterns callers clear with: none, or the files of another program
ClearPatterns == {None, Some(<<"other_", "*", ".parquet">>)}

\* the files clear_cache(pattern) calls unlink on; any of them can fail
UnlinkAttempts(dir, pattern) ==
    IF pattern # None THEN Glob(dir, pattern[1]) ELSE Glob(dir, QueryFilesPattern)

ClearCacheCall ==
    \E pattern \in ClearPatterns :
      \E failed \in SUBSET UnlinkAttempts(files, pattern) :
        \E r \in {ClearCache(files, pattern, failed)} :
            /\ call' = [op |-> "clear_cache", at |-> now, pattern |-> pattern,
                        failed |-> failed]
            /\ files' = r.files
            /\ outcome' = r.outcome
            /\ computeCalls' = 0
            /\ readCalls' = 0
            /\ UNCHANGED <<inflight, config, now, remoteCalls>>

GetCacheStatsCall ==
    /\ call' = [op |-> "get_cache_stats", at |-> now]
    /\ outcome' = Return(GetCacheStats(files, now, config.CACHE_TTL_HOURS))
    /\ computeCalls' = 0
    /\ readCalls' = 0
    /\ UNCHANGED <<inflight, config, now, files, remoteCalls>>

\* time passes between two invocations
Tick ==
    /\ now < MaxTicks * TickSeconds
    /\ now' = now + TickSeconds
    /\ UNCHANGED <<inflight, config, files, call, remoteCalls, computeCalls, readCalls, outcome>>

\* Another program overwrites a cache file with bytes that are no Parquet
\* file (tests/test_query_cache.py writes "corrupted data" into it).
CorruptFile ==
    \E name \in Glob(files, QueryFilesPattern) :
        /\ files' = WriteAt(files, name, File(now, Garbage))
        /\ call' = [op |-> "external_write", at |-> now]
        /\ outcome' = Return(PyNone)
        /\ computeCalls' = 0
        /\ readCalls' = 0
        /\ UNCHANGED <<inflight, config, now, remoteCalls>>

InitCache ==
    /\ config \in {[MAX_BYTES_BILLED |-> 2^24, CACHE_TTL_HOURS |-> ttl] : ttl \in TtlChoices}
    /\ now = 0
    /\ files = <<>>
    /\ call = NoCall
    /\ remoteCalls = <<>>
    /\ computeCalls = 0
    /\ readCalls = 0
    /\ outcome = Return(PyNone)
    /\ inflight = NoInflight

\* the cache used through its own operations only
NextCacheCalls == GetOrComputeCall \/ ClearCacheCall \/ GetCacheStatsCall \/ Tick

SpecCacheCalls == InitCache /\ [][NextCacheCalls]_vars

\* the cache with another program writing into its directory
NextCache == NextCacheCalls \/ CorruptFile

SpecCache == InitCache /\ [][NextCache]_vars

(***************************************************************************)
(* Claims on the cache                                                     *)
(***************************************************************************)
IsGetOrCompute == call.op = "get_or_compute"

CallKey == KeyOf(call.query, call.params)

TtlSeconds == config.CACHE_TTL_HOURS * SECONDS_PER_HOUR

\* at the moment of the most recent get_or_compute, a file existed for its
\* key and its age was below the TTL
FreshAtCall == call.before.exists /\ (call.at - call.before.mtime) < TtlSeconds

\* compute_fn was invoked and returned a non-empty table
ComputedTable ==
    /\ call.computed # None
    /\ call.computed[1].kind = "return"
    /\ call.computed[1].value.type = "DataFrame"
    /\ ~IsEmpty(call.computed[1].value)

\* a table as it comes back from its file: the same column data under the
\* default index
Reloaded(df) == DataFrame(df.rows, RangeIndex(Len(df.rows)))

\* the step is a non-forced get_or_compute for the key of the invocation
\* before it, made while less than the TTL has passed since that invocation
\* (the clock does not move during an invocation)
NextCallSameKeyWithinTtl ==
    /\ now' = now
    /\ call'.op = "get_or_compute"
    /\ ~call'.force_refresh
    /\ KeyOf(call'.query, call'.params) = CallKey
    /\ (call'.at - call.at) < TtlSeconds

\* C7: in a run of get_or_compute, clear_cache and get_cache_stats calls, a
\* non-forced get_or_compute does not invoke compute_fn when, at the moment
\* of the call, a file exists for the key and its age is below the TTL.
C7_FreshEntryNeverRecomputed ==
    (IsGetOrCompute /\ ~call.force_refresh /\ FreshAtCall) => computeCalls = 0

\* C8 (as stated): after a miss whose compute_fn returned a non-empty table
\* R, the next invocation, if it is a non-forced get_or_compute for the same
\* key within the TTL, returns a table equal to R without invoking compute_fn.
C8_SecondCallReturnsEqualTable ==
    [][ (/\ IsGetOrCompute /\ ~call.force_refresh /\ computeCalls = 1
         /\ ComputedTable
         /\ NextCallSameKeyWithinTtl)
        => /\ outcome' = Return(call.computed[1].value)
           /\ computeCalls' = 0 ]_vars

\* C8 (amended): after a miss whose compute_fn returned a non-empty table R
\* that was written successfully, the next invocation, if it is a non-forced
\* get_or_compute for the same key within the TTL, returns R's column data
\* under the default index (R itself when R has the default index) without
\* invoking compute_fn.
C8_SecondCallReturnsStoredTable ==
    [][ (/\ IsGetOrCompute /\ ~call.force_refresh /\ computeCalls = 1
         /\ ComputedTable
         /\ call.write = "ok"
         /\ NextCallSameKeyWithinTtl)
        => /\ outcome' = Return(Reloaded(call.computed[1].value))
           /\ computeCalls' = 0
           /\ readCalls' = 1 ]_vars

\* A hit, half an hour or more after the entry was written, on an entry that
\* only a get_or_compute whose compute_fn returned the table with its own
\* index can have written.
C8_Witness ==
    /\ IsGetOrCompute /\ ~call.force_refresh
    /\ computeCalls = 0 /\ readCalls = 1
    /\ call.before.exists
    /\ call.at > call.before.mtime
    /\ outcome = Return(DataFrame(<<"r2">>, RangeIndex(1)))

\* C9: a non-forced get_or_compute reads the file exactly when the file
\* exists and its age is strictly below ttl_hours at the time of the call;
\* when the file is missing or its age is ttl_hours or more, it invokes
\* compute_fn and does not read the file.
C9_ReadsOnlyWhenStrictlyFresh ==
    (IsGetOrCompute /\ ~call.force_refresh)
    => /\ (readCalls = 1) <=> FreshAtCall
       /\ readCalls \in {0, 1}
       /\ ~FreshAtCall => computeCalls = 1

\* a file whose age is exactly the TTL is not read and compute_fn runs
C9_Witness ==
    /\ IsGetOrCompute /\ ~call.force_refresh
    /\ config.CACHE_TTL_HOURS > 0
    /\ call.before.exists
    /\ call.before.content.format = "parquet"
    /\ call.at - call.before.mtime = TtlSeconds
    /\ readCalls = 0
    /\ computeCalls = 1

\* the most recent invocation was a non-forced get_or_compute that found a
\* fresh file that is no valid serialized table
FoundCorruptFreshEntry ==
    /\ IsGetOrCompute /\ ~call.force_refresh
    /\ FreshAtCall
    /\ call.before.content.format # "parquet"

\* C10 (as stated): a non-forced get_or_compute that finds a fresh entry
\* whose file is not a valid table raises nothing, invokes compute_fn,
\* returns its result and leaves a valid entry, so that the next non-forced
\* call within the TTL does not invoke compute_fn.
C10_CorruptEntryAlwaysHeals ==
    [][ /\ FoundCorruptFreshEntry
           => /\ outcome.kind = "return"
              /\ computeCalls = 1
              /\ outcome = call.computed[1]
              /\ FileAt(files, CallKey).exists
              /\ FileAt(files, CallKey).content.format = "parquet"
        /\ (FoundCorruptFreshEntry /\ NextCallSameKeyWithinTtl)
           => computeCalls' = 0 ]_vars

\* C10 (amended): such a call never raises the read error: it reads once and
\* invokes compute_fn once.  When compute_fn returns a non-empty table and
\* the write succeeds, the call returns that table and the file holds it as
\* a valid entry, so that the next non-forced call within the TTL is a hit
\* that does not invoke compute_fn.
C10_CorruptEntryHealsOnStoredResult ==
    [][ /\ FoundCorruptFreshEntry
           => /\ readCalls = 1
              /\ computeCalls = 1
              /\ call.computed # None
              /\ outcome.kind = "raise" => outcome.exc.type # "ArrowInvalid"
        /\ (FoundCorruptFreshEntry /\ ComputedTable /\ call.write = "ok")
           => /\ outcome = call.computed[1]
              /\ FileAt(files, CallKey)
                     = File(call.at, Parquet(call.computed[1].value.rows))
        /\ (/\ FoundCorruptFreshEntry /\ ComputedTable /\ call.write = "ok"
            /\ NextCallSameKeyWithinTtl)
           => /\ computeCalls' = 0
              /\ outcome' = Return(Reloaded(call.computed[1].value)) ]_vars

C10_Witness ==
    /\ FoundCorruptFreshEntry
    /\ ComputedTable
    /\ call.write = "ok"
    /\ outcome = call.computed[1]
    /\ FileAt(files, CallKey).content.format = "parquet"

\* compute_fn was invoked and returned an empty table
ComputedEmpty ==
    /\ call.computed # None
    /\ call.computed[1].kind = "return"
    /\ call.computed[1].value.type = "DataFrame"
    /\ IsEmpty(call.computed[1].value)

\* C11: a get_or_compute whose compute_fn returns an empty table returns
\* that table and leaves the directory as it was; when no fresh entry
\* existed before the call, a get_or_compute for the same key that follows
\* at once invokes compute_fn again.
C11_EmptyResultNotCached ==
    [][ /\ (/\ call'.op = "get_or_compute"
            /\ call'.computed # None
            /\ call'.computed[1].kind = "return"
            /\ call'.computed[1].value.type = "DataFrame"
            /\ IsEmpty(call'.computed[1].value))
           => /\ files' = files
              /\ outcome' = call'.computed[1]
        /\ (/\ IsGetOrCompute /\ ComputedEmpty /\ ~FreshAtCall
            /\ now' = now
            /\ call'.op = "get_or_compute"
            /\ KeyOf(call'.query, call'.params) = CallKey)
           => computeCalls' = 1 ]_vars

\* compute_fn returned an empty table while an expired entry was in place,
\* and the entry is still the expired one
C11_Witness ==
    /\ IsGetOrCompute /\ ComputedEmpty
    /\ call.before.exists /\ ~FreshAtCall
    /\ config.CACHE_TTL_HOURS > 0
    /\ computeCalls = 1
    /\ outcome = Return(EmptyDataFrame)
    /\ FileAt(files, CallKey) = call.before

IsForced == IsGetOrCompute /\ call.force_refresh

\* C12 (as stated): with force_refresh=True, get_or_compute invokes
\* compute_fn exactly once and does not read the cache, whether or not a
\* fresh valid entry exists; when the result is a non-empty table the file of
\* the entry is overwritten with that result.
C12_ForceRefreshAlwaysOverwrites ==
    IsForced
    => /\ computeCalls = 1
       /\ readCalls = 0
       /\ ComputedTable
              => FileAt(files, CallKey)
                     = File(call.at, ToParquet(call.computed[1].value))

\* C12 (amended): with force_refresh=True, get_or_compute invokes compute_fn
\* exactly once and does not read the cache, whether or not a fresh valid
\* entry exists; when the result is a non-empty table and the write
\* succeeds, the file of the entry holds that result's column data; when the
\* write fails, the file is as it was before the call or is a partial file.
C12_ForceRefreshOverwritesWhenWritten ==
    IsForced
    => /\ computeCalls = 1
       /\ readCalls = 0
       /\ call.computed # None
       /\ (ComputedTable /\ call.write = "ok")
              => FileAt(files, CallKey)
                     = File(call.at, ToParquet(call.computed[1].value))
       /\ (ComputedTable /\ call.write # "ok")
              => FileAt(files, CallKey) \in {call.before, File(call.at, Garbage)}

\* a forced call replaced a fresh valid entry by a newer one
C12_Witness ==
    /\ IsForced
    /\ FreshAtCall
    /\ call.before.content.format = "parquet"
    /\ computeCalls = 1 /\ readCalls = 0
    /\ ComputedTable /\ call.write = "ok"
    /\ FileAt(files, CallKey) # call.before
    /\ FileAt(files, CallKey) = File(call.at, ToParquet(call.computed[1].value))

\* the step is a get_or_compute whose compute_fn was invoked
ComputeInvokedInStep == call'.op = "get_or_compute" /\ call'.computed # None

\* C13: when compute_fn returns a value that is not a table (None included),
\* get_or_compute raises a TypeError naming the type of the value and writes
\* nothing to the directory.
C13_NonTableResultRaisesTypeError ==
    [][ (/\ ComputeInvokedInStep
         /\ call'.computed[1].kind = "return"
         /\ call'.computed[1].value.type # "DataFrame")
        => /\ outcome' = Raise(TypeError(call'.computed[1].value.type))
           /\ files' = files ]_vars

\* C14: when compute_fn returns None, get_or_compute returns an empty table,
\* raises nothing and writes nothing to the directory.
C14_NoneResultReturnsEmptyTable ==
    [][ (ComputeInvokedInStep /\ call'.computed[1] = Return(PyNone))
        => /\ outcome' = Return(EmptyDataFrame)
           /\ files' = files ]_vars

\* compute_fn returned None on a forced call over a fresh valid entry, which
\* is still in place
C14_Witness ==
    /\ IsForced
    /\ FreshAtCall /\ call.before.content.format = "parquet"
    /\ call.computed = Some(Return(PyNone))
    /\ outcome = Return(EmptyDataFrame)
    /\ FileAt(files, CallKey) = call.before

\* C15: when compute_fn raises, get_or_compute raises that same exception
\* (no cached or empty result takes its place) and the directory is left as
\* it was.
C15_ComputeErrorPropagates ==
    [][ (ComputeInvokedInStep /\ call'.computed[1].kind = "raise")
        => /\ outcome' = call'.computed[1]
           /\ files' = files ]_vars

\* compute_fn raised on a forced call over a fresh valid entry: the entry is
\* not returned in place of the exception
C15_Witness ==
    /\ IsForced
    /\ FreshAtCall /\ call.before.content.format = "parquet"
    /\ call.computed # None
    /\ call.computed[1].kind = "raise"
    /\ outcome = Raise([type |-> "QueryCostError", msg |-> "refused"])
    /\ FileAt(files, CallKey) = call.before

\* the write of the most recent get_or_compute was attempted and failed
WriteFailed == IsGetOrCompute /\ call.write \in {"fail_clean", "fail_partial"}

\* C16: when the write of a non-empty computed table fails, get_or_compute
\* returns the computed table and raises nothing.
C16_WriteFailureStillReturnsResult ==
    (WriteFailed /\ ComputedTable)
    => /\ outcome.kind = "return"
       /\ outcome = call.computed[1]

C16_Witness ==
    /\ WriteFailed /\ ComputedTable
    /\ call.write = "fail_clean"
    /\ ~call.before.exists
    /\ ~FileAt(files, CallKey).exists
    /\ outcome = Return(DataFrame(<<"r2">>, <<7>>))

\* C17: in every state reached through get_or_compute, clear_cache and
\* get_cache_stats, each file of the directory is a complete serialized
\* table, and a failed write has left the file of its key as it was.
C17_EntriesNeverPartiallyWritten ==
    /\ \A key \in DOMAIN files : files[key].content.format = "parquet"
    /\ WriteFailed => FileAt(files, CallKey) = call.before

(***************************************************************************)
(* QueryCache._generate_cache_key on its own                               *)
(***************************************************************************)
\* One derivation of a key; earlier is the derivation before it, if any.
GenerateCacheKeyCall ==
    \E query \in KeyQueries, params \in KeyParams :
        /\ call' = [op |-> "_generate_cache_key", query |-> query, params |-> params,
                    at |-> now,
                    earlier |-> IF call.op = "_generate_cache_key"
                                THEN Some([query |-> call.query, params |-> call.params,
                                           at |-> call.at, key |-> outcome.value])
                                ELSE None]
        /\ outcome' = Return(GenerateCacheKey(query, params))
        /\ computeCalls' = 0
        /\ readCalls' = 0
        /\ UNCHANGED <<inflight, config, now, files, remoteCalls>>

\* the directory is empty or holds an entry
InitKeys ==
    /\ config = [MAX_BYTES_BILLED |-> 2^24, CACHE_TTL_HOURS |-> DEFAULT_CACHE_TTL_HOURS]
    /\ now = 0
    /\ files \in {<<>>,
                  PutFile(<<>>, GenerateCacheKey(<<"q">>, <<>>),
                          File(0, Parquet(<<"r1">>)))}
    /\ call = NoCall
    /\ remoteCalls = <<>>
    /\ computeCalls = 0
    /\ readCalls = 0
    /\ outcome = Return(PyNone)
    /\ inflight = NoInflight

NextKeys == GenerateCacheKeyCall \/ Tick

SpecKeys == InitKeys /\ [][NextKeys]_vars

(***************************************************************************)
(* Claims on the cache keys                                                *)
(***************************************************************************)
IsKeyCall == call.op = "_generate_cache_key"

\* the most recent derivation and the one before it
TwoKeyCalls == IsKeyCall /\ call.earlier # None

ItemSet(params) == {params[j] : j \in DOMAIN params}

\* both mappings hold the same (name, value) pairs
SameMapping == ItemSet(call.params) = ItemSet(call.earlier[1].params)

SameQuery == call.query = call.earlier[1].query

SameKey == outcome.value = call.earlier[1].key

\* C18: the key is a function of the query text and the (name, value) pairs
\* of the mapping alone: the same query with the same pairs, in any
\* insertion order and at any time, has the same key; the key is 16
\* hexadecimal characters.
C18_KeyIsDeterministic ==
    /\ IsKeyCall
         => /\ Len(outcome.value) = 16
            /\ \A i \in 1..Len(outcome.value) :
                   \E h \in DOMAIN HexChars : outcome.value[i] = HexChars[h]
            /\ outcome.value = KeyOf(call.query, call.params)
    /\ (TwoKeyCalls /\ SameQuery /\ SameMapping) => SameKey

\* the same pairs in the other insertion order, half an hour or more later
C18_Witness ==
    /\ TwoKeyCalls /\ SameQuery /\ SameMapping
    /\ call.params # call.earlier[1].params
    /\ call.at > call.earlier[1].at
    /\ SameKey

\* the string that is hashed, for each of the two derivations
HashedNow == CacheInput(call.query, call.params)
HashedEarlier == CacheInput(call.earlier[1].query, call.earlier[1].params)

\* C19 (as stated): two requests that differ in the query text or in the
\* parameter values have different hashed strings, hence different keys.
C19_DifferentRequestsDifferentKeys ==
    (TwoKeyCalls /\ (~SameQuery \/ ~SameMapping))
    => /\ HashedNow # HashedEarlier
       /\ ~SameKey

ContainsSeparator(query) == \E i \in DOMAIN query : query[i] = "__PARAMS__"

\* C19 (amended): two requests whose query texts do not contain the
\* separator have the same hashed string, and the same key, exactly when
\* their query texts are equal after trimming and their mappings hold the
\* same pairs; a query text that contains the separator can have the hashed
\* string of another query with a mapping.
C19_KeysDifferUpToTrimming ==
    /\ (/\ TwoKeyCalls
        /\ ~ContainsSeparator(call.query)
        /\ ~ContainsSeparator(call.earlier[1].query))
       => /\ (HashedNow = HashedEarlier)
                <=> (/\ Strip(call.query) = Strip(call.earlier[1].query)
                     /\ SameMapping)
          /\ SameKey <=> (HashedNow = HashedEarlier)
    /\ TwoKeyCalls => (SameKey <=> (HashedNow = HashedEarlier))

\* two mappings that differ in one value only, and two different keys
C19_Witness ==
    /\ TwoKeyCalls /\ SameQuery
    /\ call.params = << <<"start_date", "d1">> >>
    /\ call.earlier[1].params = << <<"start_date", "d2">> >>
    /\ HashedNow # HashedEarlier
    /\ ~SameKey

(***************************************************************************)
(* clear_cache in a directory that other programs write to as well         *)
(***************************************************************************)
OtherFilename == <<"other_", "cache", ".parquet">>

\* Another program puts a Parquet file of its own into the cache directory
\* (tests/test_query_cache.py creates other_cache.parquet there).
CreateOtherFile ==
    /\ OtherFilename \notin DOMAIN files
    /\ files' = WriteAt(files, OtherFilename, File(now, Parquet(<<"r1">>)))
    /\ call' = [op |-> "external_write", at |-> now]
    /\ outcome' = Return(PyNone)
    /\ computeCalls' = 0
    /\ readCalls' = 0
    /\ UNCHANGED <<inflight, config, now, remoteCalls>>

NextClear == GetOrComputeCall \/ ClearCacheCall \/ CreateOtherFile

SpecClear == InitCache /\ [][NextClear]_vars

\* a file named query_*.parquet
IsQueryFile(name) == name[1] = "query_" /\ name[Len(name)] = ".parquet"

\* C20: clear_cache() deletes the files named query_*.parquet and no other
\* file, clear_cache(pattern) the files that match the pattern; a file whose
\* deletion fails is kept and the other deletions go on; the files that are
\* kept are left as they were and the count returned is the number of files
\* deleted.
C20_ClearDeletesMatchingFiles ==
    [][ (call'.op = "clear_cache" /\ now' = now)
        => LET targets == IF call'.pattern = None
                          THEN {name \in DOMAIN files : IsQueryFile(name)}
                          ELSE Glob(files, call'.pattern[1])
               deleted == DOMAIN files \ DOMAIN files'
           IN  /\ DOMAIN files' \subseteq DOMAIN files
               /\ deleted = targets \ call'.failed
               /\ \A name \in DOMAIN files' : files'[name] = files[name]
               /\ outcome' = Return(Cardinality(deleted)) ]_vars

\* clear_cache() deleted one of two cache files, could not delete the other,
\* and left the file of the other program in place
C20_Witness ==
    /\ call.op = "clear_cache"
    /\ call.pattern = None
    /\ outcome = Return(1)
    /\ OtherFilename \in DOMAIN files
    /\ \E name \in DOMAIN files : IsQueryFile(name) /\ name \in call.failed
    /\ Cardinality(DOMAIN files) = 2

(***************************************************************************)
(* Claims on the statistics and on what stays in the directory             *)
(***************************************************************************)
IsGetCacheStats == call.op = "get_cache_stats"

\* C21: in every state of the directory, the empty one included,
\* get_cache_stats returns the five statistics (number of entries, total
\* size, oldest age, newest age, number of stale entries), and the oldest
\* age is not below the newest.
C21_StatsHasFiveFigures ==
    IsGetCacheStats
    => /\ outcome.kind = "return"
       /\ DOMAIN outcome.value
              = {"file_count", "total_size_mb", "oldest_file_hours",
                 "newest_file_hours", "expired_files"}
       /\ outcome.value.oldest_file_hours >= outcome.value.newest_file_hours

\* C22: get_or_compute and get_cache_stats remove no file, whatever path
\* they take, and leave every file as it was unless get_or_compute attempts
\* a write: the file of a stale entry stays until a compute overwrites it or
\* clear_cache removes it.
C22_OnlyClearRemovesFiles ==
    [][ /\ call'.op # "clear_cache" => DOMAIN files \subseteq DOMAIN files'
        /\ (\/ call'.op = "get_cache_stats"
            \/ (call'.op = "get_or_compute" /\ call'.write = "none"))
           => files' = files ]_vars

\* a non-forced call found a stale entry, its compute_fn raised, and the
\* stale file is still there
C22_Witness ==
    /\ IsGetOrCompute /\ ~call.force_refresh
    /\ config.CACHE_TTL_HOURS > 0
    /\ call.before.exists /\ ~FreshAtCall
    /\ call.computed # None
    /\ call.computed[1].kind = "raise"
    /\ FileAt(files, CallKey) = call.before

(***************************************************************************)
(* get_or_compute called by concurrent callers                             *)
(*                                                                         *)
(* The cache takes no lock.  An invocation is a sequence of steps on the   *)
(* shared directory: the freshness check, the read, compute_fn, and the    *)
(* write, which opens (and truncates) the file and later completes it.     *)
(***************************************************************************)
Callers == {"a", "b"}

\* the requests of the concurrent callers: two different keys
RaceRequests ==
    << << <<"q">>, <<>> >>,
       << <<"q">>, << <<"start_date", "d1">> >> >> >>

\* what their compute functions return
RaceComputeResults ==
    { Return(DataFrame(<<"r1">>, RangeIndex(1))),
      Return(DataFrame(<<"r2">>, RangeIndex(1))),
      Return(EmptyDataFrame) }

Idle == [pc |-> "idle"]

PcOf(p) == inflight.callers[p].pc

KeyOfCaller(p) == KeyOf(inflight.callers[p].query, inflight.callers[p].params)

\* the invocation ends with result r
Finished(p, r) == [inflight.callers[p] EXCEPT !.pc = "done", !.result = Some(r)]

\* Lines 143-148: the key, the file name, and the freshness check.
RaceEnter(p) ==
    /\ PcOf(p) = "idle"
    /\ \E i \in DOMAIN RaceRequests, force_refresh \in BOOLEAN :
         LET key == KeyOf(RaceRequests[i][1], RaceRequests[i][2])
             valid == ~force_refresh
                      /\ IsCacheValid(FileAt(files, key), now, config.CACHE_TTL_HOURS)
         IN  inflight' = [inflight EXCEPT !.callers[p] =
                 [pc |-> IF valid THEN "read" ELSE "compute",
                  query |-> RaceRequests[i][1], params |-> RaceRequests[i][2],
                  force_refresh |-> force_refresh,
                  touched |-> IF force_refresh THEN {} ELSE {CacheFilename(key)},
                  computed |-> None, result |-> None, overlapped |-> FALSE]]
    /\ UNCHANGED <<config, now, files, call, remoteCalls, computeCalls, readCalls, outcome>>

\* Lines 149-159: pd.read_parquet; a failed read falls through to compute.
RaceRead(p) ==
    /\ PcOf(p) = "read"
    /\ LET r == ReadParquet(FileAt(files, KeyOfCaller(p)))
       IN  inflight' = [inflight EXCEPT !.callers[p] =
               IF r.kind = "return" THEN Finished(p, r)
               ELSE [inflight.callers[p] EXCEPT !.pc = "compute"]]
    /\ UNCHANGED <<config, now, files, call, remoteCalls, computeCalls, readCalls, outcome>>

\* Lines 169-185: compute_fn and the validation of its result.
RaceCompute(p) ==
    /\ PcOf(p) = "compute"
    /\ \E computed \in RaceComputeResults :
         LET r == ComputeAndStore(files, KeyOfCaller(p), now, computed, "fail_clean")
         IN  inflight' = [inflight EXCEPT !.callers[p] =
                 IF r.write = "none"
                 THEN [Finished(p, r.outcome) EXCEPT !.computed = Some(computed)]
                 ELSE [inflight.callers[p] EXCEPT !.pc = "write",
                                                  !.computed = Some(computed)]]
    /\ UNCHANGED <<config, now, files, call, remoteCalls, computeCalls, readCalls, outcome>>

\* the other callers that have the file of p's key open for writing
WritingSameFile(p) ==
    {q \in Callers \ {p} : PcOf(q) = "writing" /\ KeyOfCaller(q) = KeyOfCaller(p)}

\* Line 189, first half: to_parquet opens cache_path, which truncates it.
RaceWriteBegin(p) ==
    /\ PcOf(p) = "write"
    /\ files' = AfterWrite(files, KeyOfCaller(p), inflight.callers[p].computed[1].value,
                           now, "fail_partial")
    /\ inflight' = [inflight EXCEPT !.callers =
           [q \in Callers |->
               IF q = p
               THEN [inflight.callers[p] EXCEPT
                        !.pc = "writing",
                        !.touched = @ \cup {CacheFilename(KeyOfCaller(p))},
                        !.overlapped = WritingSameFile(p) # {}]
               ELSE IF q \in WritingSameFile(p)
               THEN [inflight.callers[q] EXCEPT !.overlapped = TRUE]
               ELSE inflight.callers[q]]]
    /\ UNCHANGED <<config, now, call, remoteCalls, computeCalls, readCalls, outcome>>

\* Line 189, second half: the bytes are written and the file is closed.  Two
\* writers that had the file open at the same time write into the same
\* bytes: the file is then the table of this writer or no valid table.
RaceWriteEnd(p) ==
    /\ PcOf(p) = "writing"
    /\ \E writeResult \in (IF inflight.callers[p].overlapped
                           THEN {"ok", "fail_partial"} ELSE {"ok"}) :
         files' = AfterWrite(files, KeyOfCaller(p),
                             inflight.callers[p].computed[1].value, now, writeResult)
    /\ inflight' = [inflight EXCEPT
           !.callers[p] = Finished(p, inflight.callers[p].computed[1]),
           !.written = Append(@, p)]
    /\ UNCHANGED <<config, now, call, remoteCalls, computeCalls, readCalls, outcome>>

InitRace ==
    /\ config = [MAX_BYTES_BILLED |-> 2^24, CACHE_TTL_HOURS |-> 1]
    /\ now = 0
    /\ files = <<>>
    /\ call = NoCall
    /\ remoteCalls = <<>>
    /\ computeCalls = 0
    /\ readCalls = 0
    /\ outcome = Return(PyNone)
    /\ inflight = [callers |-> [p \in Callers |-> Idle], written |-> <<>>]

NextRace ==
    \E p \in Callers :
        \/ RaceEnter(p)
        \/ RaceRead(p)
        \/ RaceCompute(p)
        \/ RaceWriteBegin(p)
        \/ RaceWriteEnd(p)

SpecRace == InitRace /\ [][NextRace]_vars

(***************************************************************************)
(* Claims on concurrent callers                                            *)
(***************************************************************************)
BothDone == \A p \in Callers : PcOf(p) = "done"

\* a caller that missed and whose compute_fn returned a non-empty table
ComputedTableBy(p) ==
    /\ inflight.callers[p].computed # None
    /\ inflight.callers[p].computed[1].value.type = "DataFrame"
    /\ ~IsEmpty(inflight.callers[p].computed[1].value)

\* both callers asked for the same key, both missed and both wrote
BothWroteSameKey ==
    /\ BothDone
    /\ KeyOfCaller("a") = KeyOfCaller("b")
    /\ \A p \in Callers : ComputedTableBy(p)

LastWriter == inflight.written[Len(inflight.written)]

\* C23: when two callers of get_or_compute for the same key have both
\* missed and both invoked compute_fn, each returns its own computed table
\* and, once both have finished, the file of the entry holds the table that
\* was written last.
C23_LastWriterWins ==
    BothWroteSameKey
    => /\ \A p \in Callers :
              inflight.callers[p].result = inflight.callers[p].computed
       /\ FileAt(files, KeyOfCaller("a")).content
              = ToParquet(inflight.callers[LastWriter].computed[1].value)

\* the one file an invocation is entitled to: query_<its key>.parquet
OwnFile(rec) == <<"query_">> \o KeyOf(rec.query, rec.params) \o <<".parquet">>

\* the files that a step created or modified
ChangedFiles ==
    {name \in DOMAIN files' : name \notin DOMAIN files \/ files'[name] # files[name]}
    \cup (DOMAIN files \ DOMAIN files')

\* C24: under any interleaving of get_or_compute calls, a call checks, reads,
\* creates and modifies no file but the one named from its own key.
C24_CallsTouchOnlyTheirOwnFile ==
    [][ /\ \A name \in ChangedFiles :
              \E p \in Callers :
                  /\ inflight'.callers[p] # inflight.callers[p]
                  /\ name = OwnFile(inflight'.callers[p])
        /\ \A p \in Callers :
              inflight'.callers[p].pc # "idle"
              => inflight'.callers[p].touched \subseteq {OwnFile(inflight'.callers[p])} ]_vars

\* two callers with different keys ran side by side and each file holds the
\* table of its own caller
C24_Witness ==
    /\ BothDone
    /\ KeyOfCaller("a") # KeyOfCaller("b")
    /\ \A p \in Callers :
          /\ ComputedTableBy(p)
          /\ FileAt(files, KeyOfCaller(p)).content
                 = ToParquet(inflight.callers[p].computed[1].value)
    /\ inflight.callers["a"].computed # inflight.callers["b"].computed
    /\ Cardinality(DOMAIN files) = 2

(***************************************************************************)
(* The ETL steps: basic_rev_etl.main and interaction_etl.main fetch their  *)
(* data with safe_query, wrapped in _fetch_data_from_bq and handed to      *)
(* get_or_compute as compute_fn.                                           *)
(***************************************************************************)
\* _fetch_data_from_bq: try: df = bq_client.safe_query(sql_query_string);
\* a non-empty table is returned, anything else becomes None;
\* except Exception: log and return None.
FetchDataFromBq(cfg, query, dryResp, execResp) ==
    LET r == SafeQuery(cfg, query, <<>>, dryResp, execResp)
    IN  [calls |-> r.calls,
         outcome |-> IF r.outcome.kind = "raise" THEN Return(PyNone)
                     ELSE IF r.outcome.value # PyNone /\ ~IsEmpty(r.outcome.value)
                     THEN r.outcome
                     ELSE Return(PyNone)]

\* the query and the cache parameters of a step
EtlRequest == CacheRequests[3]

\* query_cache.get_or_compute(query=sql_query_string,
\*     compute_fn=_fetch_data_from_bq, params=...): the remote service is
\* reached only when compute_fn is invoked.
FetchViaCache(cfg, dir, t, dryResp, execResp, writeResult) ==
    LET query == EtlRequest[1]
        params == EtlRequest[2]
        hit == TryRead(dir, KeyOf(query, params), t, cfg.CACHE_TTL_HOURS, FALSE).hit
        fetched == FetchDataFromBq(cfg, query, dryResp, execResp)
        r == GetOrCompute(cfg, dir, t, query, params, FALSE,
                          IF hit THEN Return(PyNone) ELSE fetched.outcome,
                          writeResult)
    IN  [files |-> r.files, outcome |-> r.outcome, reads |-> r.reads,
         computes |-> r.computes,
         calls |-> IF hit THEN <<>> ELSE fetched.calls]

\* basic_rev_etl.validate_dataframe on what get_or_compute returned, the
\* required columns being those of the query
ValidateDataframe(df) == df # PyNone /\ df.type = "DataFrame"

\* basic_rev_etl.main after get_or_compute returned: validation, storage of
\* a non-empty table, "Basic REV ETL process completed successfully".
\* An exception of get_or_compute is logged and re-raised.
BasicRevEtlEnd(fetchOutcome, saved) ==
    IF fetchOutcome.kind = "raise" THEN [outcome |-> fetchOutcome, log |-> "failed"]
    ELSE IF ~ValidateDataframe(fetchOutcome.value)
    THEN [outcome |-> Return(PyNone), log |-> "validation failed"]
    ELSE IF ~IsEmpty(fetchOutcome.value)
    THEN [outcome |-> Return(PyNone),
          log |-> IF saved THEN "stored, completed successfully"
                  ELSE "not stored, completed successfully"]
    ELSE [outcome |-> Return(PyNone), log |-> "no data, completed successfully"]

\* interaction_etl.main after get_or_compute returned:
\* if df is None or df.empty: logger.error(...); return
InteractionEtlEnd(fetchOutcome, saved) ==
    IF fetchOutcome.kind = "raise" THEN [outcome |-> fetchOutcome, log |-> "failed"]
    ELSE IF fetchOutcome.value = PyNone \/ IsEmpty(fetchOutcome.value)
    THEN [outcome |-> Return(PyNone), log |-> "no data, exiting"]
    ELSE [outcome |-> Return(PyNone),
          log |-> IF saved THEN "stored, completed successfully" ELSE "not stored"]

\* save_dataframe_safely answers only when there is a table to store
SaveChoices(fetchOutcome) ==
    IF fetchOutcome.kind = "return" /\ fetchOutcome.value # PyNone
       /\ ~IsEmpty(fetchOutcome.value)
    THEN BOOLEAN ELSE {TRUE}

EtlStep(op, r, end) ==
    /\ call' = [op |-> op, log |-> end.log, fetched |-> r.outcome]
    /\ files' = r.files
    /\ remoteCalls' = r.calls
    /\ computeCalls' = r.computes
    /\ readCalls' = r.reads
    /\ outcome' = end.outcome
    /\ UNCHANGED <<inflight, config, now>>

BasicRevEtlMain ==
    \E dryResp \in DryRunResponses, execResp \in ExecResponses,
       writeResult \in WriteResults :
        \E r \in {FetchViaCache(config, files, now, dryResp, execResp, writeResult)} :
            \E saved \in SaveChoices(r.outcome) :
                EtlStep("basic_rev_etl.main", r, BasicRevEtlEnd(r.outcome, saved))

InteractionEtlMain ==
    \E dryResp \in DryRunResponses, execResp \in ExecResponses,
       writeResult \in WriteResults :
        \E r \in {FetchViaCache(config, files, now, dryResp, execResp, writeResult)} :
            \E saved \in SaveChoices(r.outcome) :
                EtlStep("interaction_etl.main", r, InteractionEtlEnd(r.outcome, saved))

InitEtl == InitClient

NextEtl == BasicRevEtlMain \/ InteractionEtlMain \/ Tick

SpecEtl == InitEtl /\ [][NextEtl]_vars

(***************************************************************************)
(* Claim on the ETL steps                                                  *)
(***************************************************************************)
IsEtlStep == call.op \in {"basic_rev_etl.main", "interaction_etl.main"}

\* inside the step, the cost guard refused the query, or the estimation or
\* the execution failed
FetchRefusedOrFailed ==
    /\ Len(remoteCalls) >= 1
    /\ \/ ~DryRunAnswered
       \/ ExceedsLimit(DryRunBytes, config.MAX_BYTES_BILLED)
       \/ SecondCallFailed

\* C25: when the cost guard refuses the query of an ETL step, or its
\* estimation or execution fails, the step raises to its caller instead of
\* completing normally.
C25_FailuresStopTheStep ==
    (IsEtlStep /\ FetchRefusedOrFailed) => outcome.kind = "raise"

(***************************************************************************)
(* The cost formula on byte counts of a tebibyte and more.  A byte count   *)
(* tib * 1024**4 + rest is kept as the pair of its two parts, so that a    *)
(* whole tebibyte stays within the range of TLC's integers.  For every     *)
(* count used here bytes * 25 is below 2**53, where Python's division by   *)
(* 1024**4 and multiplication by 6.25 on doubles are exact.                *)
(***************************************************************************)
WideBytes(tib, rest) == [tib |-> tib, rest |-> rest]

\* query_job.total_bytes_processed or 0
OrZeroWide(x) == IF x = None THEN WideBytes(0, 0) ELSE x[1]

\* Mutation: the service's minimum of 10 MiB per query is charged.
CostEstimateWideMinimumBilled(b) ==
    IF b.tib = 0 /\ b.rest < 10 * KIB * KIB
    THEN CostEstimate(10 * KIB * KIB)
    ELSE LET low == CostEstimate(b.rest)
         IN  [whole |-> b.tib * (COST_PER_TIB_USD_CENTS * 100) + low.whole,
              rems |-> low.rems]

\* (bytes_estimate / self.BYTES_PER_TIB) * self.COST_PER_TIB_USD
CostEstimateWide(b) ==
    LET low == CostEstimate(b.rest)
    IN  [whole |-> b.tib * (COST_PER_TIB_USD_CENTS * 100) + low.whole,
         rems |-> low.rems]

EstimateQueryCostWide(cfg, query, resp) ==
    [calls |-> <<RemoteCall(query,
                            QueryJobConfig(TRUE, FALSE, Some(cfg.MAX_BYTES_BILLED)),
                            resp)>>,
     outcome |-> IF resp.kind = "error" THEN Raise(resp.exc)
                 ELSE LET b == OrZeroWide(resp.total_bytes_processed)
                      IN  Return(<<b, CostEstimateWide(b)>>)]

\* query_job.total_bytes_processed of a dry run, up to two tebibytes
WideBytesReported ==
    {None} \cup {Some(WideBytes(tib, rest)) :
                    tib \in 0..2, rest \in {0, 1, 3, 4, 2^24 + 1, 2^25 + 2}}

WideDryRunResponses ==
    {[kind |-> "error", exc |-> e] : e \in RemoteErrors}
    \cup {[kind |-> "job", total_bytes_processed |-> b] : b \in WideBytesReported}

\* the estimates returned by the calls before this one, most recent first
EstimatesSoFar ==
    IF call.op # "estimate_query_cost" THEN <<>>
    ELSE IF outcome.kind = "return" THEN <<outcome.value>> \o call.earlier
    ELSE call.earlier

EstimateQueryCostWideCall ==
    \E dryResp \in WideDryRunResponses :
        \E r \in {EstimateQueryCostWide(config, "SELECT a", dryResp)} :
            /\ call' = [op |-> "estimate_query_cost", query |-> "SELECT a",
                        earlier |-> SubSeq(EstimatesSoFar, 1,
                                           IF Len(EstimatesSoFar) < 2
                                           THEN Len(EstimatesSoFar) ELSE 2)]
            /\ remoteCalls' = r.calls
            /\ outcome' = r.outcome
            /\ UNCHANGED <<inflight, config, now, files, computeCalls, readCalls>>

InitCost == InitClient

NextCost == EstimateQueryCostWideCall

SpecCost == InitCost /\ [][NextCost]_vars

(***************************************************************************)
(* Claim on the cost formula                                               *)
(***************************************************************************)
EstimateReturned == call.op = "estimate_query_cost" /\ outcome.kind = "return"

\* the sum of two byte counts and of two costs
BytesAdd(b1, b2) == WideBytes(b1.tib + b2.tib, b1.rest + b2.rest)

CostAdd(c1, c2) ==
    LET s4 == c1.rems[4] + c2.rems[4]
        s3 == c1.rems[3] + c2.rems[3] + s4 \div KIB
        s2 == c1.rems[2] + c2.rems[2] + s3 \div KIB
        s1 == c1.rems[1] + c2.rems[1] + s2 \div KIB
    IN  [whole |-> c1.whole + c2.whole + s1 \div KIB,
         rems |-> <<s1 % KIB, s2 % KIB, s3 % KIB, s4 % KIB>>]

ZeroCost == [whole |-> 0, rems |-> <<0, 0, 0, 0>>]

\* 6.25 dollars, in ten-thousandths
PricePerTib == [whole |-> 62500, rems |-> <<0, 0, 0, 0>>]

\* the byte count of the estimate is the sum of those of the two before it
SumOfTwoEarlier ==
    /\ EstimateReturned
    /\ Len(call.earlier) = 2
    /\ outcome.value[1] = BytesAdd(call.earlier[1][1], call.earlier[2][1])

HitStep ==
    /\ now' = now
    /\ call'.op = "get_or_compute"
    /\ call'.at = now
    /\ call'.computed = None
    /\ outcome'.kind = "return"

\* the files whose modification time the step set or changed
Restamped ==
    {name \in DOMAIN files' :
        name \notin DOMAIN files \/ files'[name].mtime # files[name].mtime}

\* C27: with no other program writing into the directory, a hit leaves every
\* file and modification time as it was, a modification time is only ever
\* set to the time of a write by get_or_compute, and no non-forced call is
\* served from a file once ttl_hours have passed since that time.
C27_HitsDoNotExtendLifetime ==
    [][ /\ HitStep =>
            /\ files' = files
            /\ ~call'.force_refresh
            /\ call'.before.exists
            /\ now < call'.before.mtime + TtlSeconds
        /\ \A name \in Restamped :
              /\ files'[name].mtime = now
              /\ call'.op = "get_or_compute"
              /\ call'.write \in {"ok", "fail_partial"}
              /\ name = CacheFilename(KeyOf(call'.query, call'.params)) ]_vars

\* an entry was served some time after it was written and its file still
\* carries the time of the write
C27_Witness ==
    /\ IsGetOrCompute
    /\ call.computed = None
    /\ outcome.kind = "return"
    /\ call.before.exists
    /\ call.at > call.before.mtime
    /\ FileAt(files, CallKey) = call.before

\* the query files that get_or_compute would not serve at the time of the
\* most recent call
NotFreshFiles ==
    {name \in Glob(files, QueryFilesPattern) :
        ~IsCacheValid(files[name], call.at, config.CACHE_TTL_HOURS)}

StaleCountReported == IsGetCacheStats /\ "expired_files" \in DOMAIN outcome.value

\* C28: the count of stale entries that get_cache_stats reports is the
\* number of query files that fail the freshness check of get_or_compute.
C28_StaleCountMatchesFreshness ==
    StaleCountReported => outcome.value.expired_files = Cardinality(NotFreshFiles)

\* the step is a non-forced get_or_compute that immediately follows a
\* forced one for the same key that returned a result
NonForcedRightAfterForced ==
    /\ IsGetOrCompute
    /\ call.force_refresh
    /\ outcome.kind = "return"
    /\ now' = now
    /\ call'.op = "get_or_compute"
    /\ ~call'.force_refresh
    /\ KeyOf(call'.query, call'.params) = CallKey

\* C29: a non-forced get_or_compute that immediately follows a forced one
\* for the same key recomputes or returns the table the forced call
\* returned (as it comes back from its file), never an older entry.
C29_ForcedResultReplacesEntry ==
    [][ NonForcedRightAfterForced =>
            \/ call'.computed # None
            \/ /\ outcome'.kind = "return"
               /\ outcome'.value = Reloaded(outcome.value) ]_vars

(***************************************************************************)
(* Claim on job_config_customizations                                      *)
(***************************************************************************)
\* the configuration safe_query builds for the execution query before the
\* customizations are applied
BilledJobConfig == QueryJobConfig(FALSE, TRUE, Some(config.MAX_BYTES_BILLED))

\* C30: whatever job_config_customizations a safe_query is given, its dry
\* run is configured from the ceiling alone, it refuses exactly when the
\* estimate exceeds the ceiling and then sends no second query, and the
\* execution query's configuration has the attributes of a job
\* configuration only, each customized or left as safe_query set it.
C30_CustomizationsOnlyShapeExecution ==
    IsSafeQuery =>
        /\ remoteCalls[1].job_config
               = QueryJobConfig(TRUE, FALSE, Some(config.MAX_BYTES_BILLED))
        /\ DryRunAnswered =>
               /\ IsRefusal <=> DryRunBytes > config.MAX_BYTES_BILLED
               /\ DryRunBytes > config.MAX_BYTES_BILLED => Len(remoteCalls) = 1
               /\ DryRunBytes <= config.MAX_BYTES_BILLED => Len(remoteCalls) = 2
        /\ Len(remoteCalls) = 2 =>
               /\ DOMAIN remoteCalls[2].job_config = DOMAIN BilledJobConfig
               /\ \A k \in DOMAIN BilledJobConfig :
                      remoteCalls[2].job_config[k]
                          = IF k \in DOMAIN call.customizations
                            THEN call.customizations[k] ELSE BilledJobConfig[k]

\* a safe_query whose customizations raise the billing limit above the
\* estimate was refused all the same, with the dry run as its only query
C30_Witness ==
    /\ IsSafeQuery
    /\ "maximum_bytes_billed" \in DOMAIN call.customizations
    /\ DryRunAnswered
    /\ DryRunBytes > config.MAX_BYTES_BILLED
    /\ DryRunBytes < call.customizations.maximum_bytes_billed[1]
    /\ IsRefusal
    /\ Len(remoteCalls) = 1

====
